---- MODULE Spec2Model ----
(***************************************************************************)
(* VCFReader of variantworks/io/vcfio.py: schema resolution, multi-allelic *)
(* decomposition (_create_df), the chunked round-robin worker scan         *)
(* (_parse_vcf_cyvcf), the ordered merge (_parallel_parse_vcf) and the     *)
(* indexed Variant reconstruction (__getitem__).                           *)
(***************************************************************************)
EXTENDS Integers, Sequences, FiniteSets, TLC

VARIABLES vcf, num_threads, chunksize, is_fp,
          info_vcf_keys, format_vcf_keys,
          info_vcf_key_counts, format_vcf_key_counts, sample_names,
          pc, wpc, werr, widx, variant_list, w_df_list, result,
          df_list, dataframe, item

vars == <<vcf, num_threads, chunksize, is_fp, info_vcf_keys, format_vcf_keys,
          info_vcf_key_counts, format_vcf_key_counts, sample_names,
          pc, wpc, werr, widx, variant_list, w_df_list, result,
          df_list, dataframe, item>>

(* ------------------------------ bounds --------------------------------- *)
MaxThreads == 2
MaxChunk == 2
MaxRecords == 3
MaxAlts == 2

(* ------------------------- small Python helpers ------------------------ *)
None == <<>>
Scalar(n) == <<n>>
IsNone(x) == x = None

Range(s) == {s[i] : i \in DOMAIN s}

\* [None] * count
NoneList(count) == [j \in 1..count |-> None]

\* str.isdigit() and int() on the header Number codes
IsDigit(s) == s \in {"0", "1", "2", "3"}
IntOf(s) == CASE s = "0" -> 0 [] s = "1" -> 1 [] s = "2" -> 2 [] s = "3" -> 3

\* str(v) of a raw scalar
PyStr(x) == IF IsNone(x) THEN "None" ELSE ToString(x[1])

\* ",".join([str(v) for v in val])
RECURSIVE JoinStr(_)
JoinStr(val) ==
    IF Len(val) = 0 THEN ""
    ELSE IF Len(val) = 1 THEN PyStr(val[1])
    ELSE PyStr(val[1]) \o "," \o JoinStr(Tail(val))

(* --------------------------- _detect_zygosity -------------------------- *)
detect_zygosity(gt) ==
    IF is_fp THEN "NO_VARIANT"
    ELSE IF gt[1] = -1 \/ gt[2] = -1 THEN "NONE"
    ELSE IF gt[1] = gt[2]
         THEN (IF gt[1] = 0 THEN "NO_VARIANT" ELSE "HOMOZYGOUS")
         ELSE "HETEROZYGOUS"

(* ------------------------- _get_normalized_count ----------------------- *)
get_normalized_count(header_number, num_alts, num_samples) ==
    CASE header_number = "A" -> num_alts
      [] header_number = "R" -> num_alts + 1
      [] header_number = "G" -> num_samples
      [] IsDigit(header_number) -> IntOf(header_number)
      [] header_number = "." -> 1

(* ------------------------ _get_header_type_lambda ---------------------- *)
\* The else branch raises RuntimeError("Unknown VCF header type:")
TypeKnown(header_type) == header_type \in {"String", "Integer", "Float", "Flag"}

\* The lambda returned for a known type, applied to a raw scalar
header_python_type(header_type, x) ==
    CASE header_type = "String"  -> (IF IsNone(x) THEN "None" ELSE "'" \o ToString(x[1]) \o "'")
      [] header_type = "Integer" -> (IF IsNone(x) THEN "None" ELSE ToString(x[1]))
      [] header_type = "Float"   -> (IF IsNone(x) THEN "None" ELSE ToString(x[1]) \o ".0")
      [] header_type = "Flag"    -> (IF IsNone(x) THEN "False" ELSE "True")

\* A raw scalar stored without conversion (line 325)
RawCell(x) == PyStr(x)

(* ------------------------------- fix_gt -------------------------------- *)
fix_gt(gt_alt_id, loop_alt_id) ==
    IF gt_alt_id = loop_alt_id THEN 1
    ELSE IF gt_alt_id # 0 THEN -1
    ELSE 0

(* ------------------------- DataFrame, df_dict -------------------------- *)
\* defaultdict(list): column name -> list of cells
EmptyDict == [c \in {} |-> <<>>]

DictAppend(d, key, x) ==
    IF key \in DOMAIN d THEN [d EXCEPT ![key] = Append(@, x)]
    ELSE d @@ (key :> <<x>>)

Ok(d, gts) == [d |-> d, err |-> "", gts |-> gts]
Raise(acc, e) == [acc EXCEPT !.err = e]

\* val[i] is defined (else Python raises IndexError)
HasIndex(val, i) == (i + 1) \in DOMAIN val

EmptyDataFrame == [none |-> FALSE, cols |-> {}, rows |-> <<>>]
NoneDataFrame == [none |-> TRUE, cols |-> {}, rows |-> <<>>]

\* pd.DataFrame.from_dict(df_dict): columns of unequal length raise ValueError
ColumnLengths(d) == {Len(d[c]) : c \in DOMAIN d}

FromDictOk(d) == Cardinality(ColumnLengths(d)) <= 1

FromDict(d) ==
    IF DOMAIN d = {} THEN EmptyDataFrame
    ELSE LET n == CHOOSE m \in ColumnLengths(d) : TRUE
         IN [none |-> FALSE, cols |-> DOMAIN d,
             rows |-> [i \in 1..n |-> [c \in DOMAIN d |-> d[c][i]]]]

\* pd.concat(dfs, ignore_index=True): union of the columns, missing cells NaN
WidenRow(row, cols) == [c \in cols |-> IF c \in DOMAIN row THEN row[c] ELSE "NaN"]

RECURSIVE ConcatRows(_, _)
ConcatRows(dfs, cols) ==
    IF Len(dfs) = 0 THEN <<>>
    ELSE [i \in 1..Len(dfs[1].rows) |-> WidenRow(dfs[1].rows[i], cols)]
         \o ConcatRows(Tail(dfs), cols)

ConcatFirstOnly(dfs) ==
    [none |-> FALSE, cols |-> dfs[1].cols, rows |-> dfs[1].rows]

Concat(dfs) ==
    LET cols == UNION {dfs[i].cols : i \in DOMAIN dfs}
    IN [none |-> FALSE, cols |-> cols, rows |-> ConcatRows(dfs, cols)]

(* ------------------------------ _create_df ----------------------------- *)
\* enumerate(alts), as 0-based alt_idx
AltIndicesSkipFirst(variant) == 1..(Len(variant.ALT) - 1)

AltIndices(variant) == 0..(Len(variant.ALT) - 1)

\* Lines 291-298 (the columns the claims read: chrom, ref, alt)
StandardCols(d, variant, alt_idx) ==
    DictAppend(DictAppend(DictAppend(d, "chrom", variant.CHROM),
                          "ref", variant.REF),
               "alt", variant.ALT[alt_idx + 1])

\* Line 320 and line 382: the value of a field the record does not carry
AbsentValueEmpty(header_number, num_alts, num_samples) == <<>>

AbsentValue(header_number, num_alts, num_samples) ==
    NoneList(get_normalized_count(header_number, num_alts, num_samples))

\* Lines 317-318: a value that is not a tuple is wrapped into a 1-tuple
AsTuple(raw) == IF raw.is_tuple THEN raw.v ELSE <<raw.v[1]>>

\* for i in range(header_number): df_dict[df_key + "_" + str(i)].append(type(val[i]))
RECURSIVE AppendIndexed(_, _, _, _, _, _)
AppendIndexed(acc, df_key, header_type, val, i, n) ==
    IF i >= n THEN acc
    ELSE IF ~HasIndex(val, i) THEN Raise(acc, "IndexError")
    ELSE AppendIndexed(
           [acc EXCEPT !.d = DictAppend(@, df_key \o "_" \o ToString(i),
                                        header_python_type(header_type, val[i + 1]))],
           df_key, header_type, val, i + 1, n)

\* Lines 324-337: projection of an INFO value
ProjectInfo(acc, df_key, header_number, header_type, val, alt_idx) ==
    CASE header_number = "A" ->
           IF ~HasIndex(val, alt_idx) THEN Raise(acc, "IndexError")
           ELSE [acc EXCEPT !.d = DictAppend(@, df_key, RawCell(val[alt_idx + 1]))]
      [] header_number = "R" ->
           IF ~HasIndex(val, 0) \/ ~HasIndex(val, alt_idx + 1) THEN Raise(acc, "IndexError")
           ELSE [acc EXCEPT !.d =
                   DictAppend(DictAppend(@, df_key \o "_REF",
                                         header_python_type(header_type, val[1])),
                              df_key \o "_ALT",
                              header_python_type(header_type, val[alt_idx + 2]))]
      [] IsDigit(header_number) ->
           IF IntOf(header_number) = 1
           THEN (IF ~HasIndex(val, 0) THEN Raise(acc, "IndexError")
                 ELSE [acc EXCEPT !.d = DictAppend(@, df_key,
                                          header_python_type(header_type, val[1]))])
           ELSE AppendIndexed(acc, df_key, header_type, val, 0, IntOf(header_number))
      [] header_number = "." ->
           [acc EXCEPT !.d = DictAppend(@, df_key, JoinStr(val))]
      [] OTHER -> acc

\* Lines 387-401: projection of a FORMAT value of one sample
ProjectFormat(acc, df_key, header_number, header_type, val, alt_idx) ==
    CASE header_number = "A" ->
           IF ~HasIndex(val, alt_idx) THEN Raise(acc, "IndexError")
           ELSE [acc EXCEPT !.d = DictAppend(@, df_key,
                                    header_python_type(header_type, val[alt_idx + 1]))]
      [] header_number = "R" ->
           IF ~HasIndex(val, 0) \/ ~HasIndex(val, alt_idx + 1) THEN Raise(acc, "IndexError")
           ELSE [acc EXCEPT !.d =
                   DictAppend(DictAppend(@, df_key \o "_REF",
                                         header_python_type(header_type, val[1])),
                              df_key \o "_ALT",
                              header_python_type(header_type, val[alt_idx + 2]))]
      [] IsDigit(header_number) ->
           IF IntOf(header_number) = 1
           THEN (IF ~HasIndex(val, 0) THEN Raise(acc, "IndexError")
                 ELSE [acc EXCEPT !.d = DictAppend(@, df_key,
                                          header_python_type(header_type, val[1]))])
           ELSE AppendIndexed(acc, df_key, header_type, val, 0, IntOf(header_number))
      [] header_number = "." ->
           [acc EXCEPT !.d = DictAppend(@, df_key, JoinStr(val))]
      [] OTHER -> acc

InfoColUnchecked(acc, variant, alt_idx, info_col) ==
    LET header_number == vcf.header[info_col].Number
        header_type == IF TypeKnown(vcf.header[info_col].Type)
                       THEN vcf.header[info_col].Type ELSE "String"
        val == IF info_col \in DOMAIN variant.INFO
               THEN AsTuple(variant.INFO[info_col])
               ELSE AbsentValue(header_number, Len(variant.ALT), Len(vcf.samples))
    IN ProjectInfo(acc, "INFO_" \o info_col, header_number, header_type, val, alt_idx)

\* Lines 309-337: one configured INFO column of one (variant, alt) pair
InfoCol(acc, variant, alt_idx, info_col) ==
    LET header_number == vcf.header[info_col].Number
        header_type == vcf.header[info_col].Type
        val == IF info_col \in DOMAIN variant.INFO
               THEN AsTuple(variant.INFO[info_col])
               ELSE AbsentValue(header_number, Len(variant.ALT), Len(vcf.samples))
    IN IF ~TypeKnown(header_type) THEN Raise(acc, "RuntimeError")
       ELSE ProjectInfo(acc, "INFO_" \o info_col, header_number, header_type, val, alt_idx)

RECURSIVE InfoCols(_, _, _, _)
InfoCols(acc, variant, alt_idx, keys) ==
    IF acc.err # "" \/ Len(keys) = 0 THEN acc
    ELSE InfoCols(InfoCol(acc, variant, alt_idx, Head(keys)), variant, alt_idx, Tail(keys))

\* Lines 364-372: the GT column of one sample. gt is the list that
\* variant.genotypes[sample_idx] hands out; the code writes into it in place.
\* When the record source keeps that list (vcf.genotypes_cached) the writes
\* are still there at the next alt of the same record.
GtCol(acc, alt_idx, sample_idx) ==
    LET sample_name == vcf.samples[sample_idx + 1]
        gt == acc.gts[sample_idx + 1]
        alt_id == alt_idx + 1
        f0 == fix_gt(gt[1], alt_id)
        f1 == fix_gt(gt[2], alt_id)
        fixed == IF f0 = -1 \/ f1 = -1 THEN <<-1, -1>> ELSE <<f0, f1>>
    IN [acc EXCEPT
          !.d = DictAppend(DictAppend(@, sample_name \o "_zyg", detect_zygosity(fixed)),
                           sample_name \o "_GT",
                           ToString(fixed[1]) \o "/" \o ToString(fixed[2])),
          !.gts = IF vcf.genotypes_cached
                  THEN [@ EXCEPT ![sample_idx + 1] = fixed]
                  ELSE @]

\* Lines 374-401: a FORMAT column other than GT of one sample
FormatCol(acc, variant, alt_idx, format_col, sample_idx) ==
    LET header_number == vcf.header[format_col].Number
        header_type == vcf.header[format_col].Type
        val == IF format_col \in DOMAIN variant.FORMAT
               THEN variant.FORMAT[format_col][sample_idx + 1]
               ELSE AbsentValue(header_number, Len(variant.ALT), Len(vcf.samples))
    IN IF ~TypeKnown(header_type) THEN Raise(acc, "RuntimeError")
       ELSE ProjectFormat(acc, vcf.samples[sample_idx + 1] \o "_" \o format_col,
                          header_number, header_type, val, alt_idx)

\* Lines 340-401: for format_col in keys: for sample_idx, sample_name in samples
RECURSIVE FormatCols(_, _, _, _)
FormatCols(acc, variant, alt_idx, p) ==
    LET S == Len(vcf.samples)
    IN IF acc.err # "" \/ S = 0 \/ p >= Len(format_vcf_keys) * S THEN acc
       ELSE LET format_col == format_vcf_keys[(p \div S) + 1]
                sample_idx == p % S
            IN FormatCols(IF format_col = "GT"
                          THEN GtCol(acc, alt_idx, sample_idx)
                          ELSE FormatCol(acc, variant, alt_idx, format_col, sample_idx),
                          variant, alt_idx, p + 1)

\* Lines 289-401: the row of one alt allele
AltRow(acc, variant, alt_idx) ==
    FormatCols(
      InfoCols([acc EXCEPT !.d = StandardCols(@, variant, alt_idx)],
               variant, alt_idx, info_vcf_keys),
      variant, alt_idx, 0)

RECURSIVE AltRows(_, _, _)
AltRows(acc, variant, todo) ==
    IF acc.err # "" \/ todo = {} THEN acc
    ELSE LET alt_idx == CHOOSE a \in todo : \A b \in todo : a <= b
         IN AltRows(AltRow(acc, variant, alt_idx), variant, todo \ {alt_idx})

\* Lines 286-401: for variant in variant_list
RECURSIVE VariantRows(_, _)
VariantRows(acc, variants) ==
    IF acc.err # "" \/ Len(variants) = 0 THEN acc
    ELSE VariantRows(
           AltRows([acc EXCEPT !.gts = Head(variants).genotypes],
                   Head(variants), AltIndices(Head(variants))),
           Tail(variants))

\* _create_df: [err, df]
CreateDf(variants) ==
    LET acc == VariantRows(Ok(EmptyDict, <<>>), variants)
    IN IF acc.err # "" THEN [err |-> acc.err, df |-> EmptyDataFrame]
       ELSE IF ~FromDictOk(acc.d) THEN [err |-> "ValueError", df |-> EmptyDataFrame]
       ELSE [err |-> "", df |-> FromDict(acc.d)]

(* --------------------------- _parse_vcf_cyvcf -------------------------- *)
Workers == 0..(num_threads - 1)

\* Line 433: a record index maps to this thread
BelongsWrongModulus(i, thread_id) ==
    (i \div chunksize) % (num_threads + 1) = thread_id

Belongs(i, thread_id) == (i \div chunksize) % num_threads = thread_id

\* Line 435: the buffer is decomposed at the first index of a chunk
ChunkBoundary(i) == i % chunksize = 0

\* Lines 431-437: one iteration of the scan loop of worker w
WorkerScan(w) ==
    /\ wpc[w] = "scan"
    /\ widx[w] < Len(vcf.records)
    /\ LET i == widx[w]
           buf == Append(variant_list[w], vcf.records[i + 1])
           r == CreateDf(buf)
       IN IF ~Belongs(i, w)
          THEN /\ widx' = [widx EXCEPT ![w] = i + 1]
               /\ UNCHANGED <<wpc, werr, variant_list, w_df_list>>
          ELSE IF ~ChunkBoundary(i)
          THEN /\ widx' = [widx EXCEPT ![w] = i + 1]
               /\ variant_list' = [variant_list EXCEPT ![w] = buf]
               /\ UNCHANGED <<wpc, werr, w_df_list>>
          ELSE IF r.err # ""
          THEN /\ wpc' = [wpc EXCEPT ![w] = "failed"]
               /\ werr' = [werr EXCEPT ![w] = r.err]
               /\ variant_list' = [variant_list EXCEPT ![w] = buf]
               /\ UNCHANGED <<widx, w_df_list>>
          ELSE /\ widx' = [widx EXCEPT ![w] = i + 1]
               /\ w_df_list' = [w_df_list EXCEPT ![w] = Append(@, r.df)]
               /\ variant_list' = [variant_list EXCEPT ![w] = <<>>]
               /\ UNCHANGED <<wpc, werr>>
    /\ UNCHANGED <<vcf, num_threads, chunksize, is_fp, info_vcf_keys, format_vcf_keys,
                   info_vcf_key_counts, format_vcf_key_counts, sample_names,
                   pc, result, df_list, dataframe, item>>

\* Lines 439-445: the remainder is decomposed and the worker's table returned
WorkerFinish(w) ==
    /\ wpc[w] = "scan"
    /\ widx[w] = Len(vcf.records)
    /\ LET r == CreateDf(variant_list[w])
           dfs == IF variant_list[w] # <<>> THEN Append(w_df_list[w], r.df)
                  ELSE w_df_list[w]
       IN IF variant_list[w] # <<>> /\ r.err # ""
          THEN /\ wpc' = [wpc EXCEPT ![w] = "failed"]
               /\ werr' = [werr EXCEPT ![w] = r.err]
               /\ UNCHANGED <<w_df_list, result>>
          ELSE /\ wpc' = [wpc EXCEPT ![w] = "done"]
               /\ UNCHANGED werr
               /\ w_df_list' = [w_df_list EXCEPT ![w] = dfs]
               /\ result' = [result EXCEPT ![w] =
                               IF dfs # <<>> THEN Concat(dfs) ELSE EmptyDataFrame]
    /\ UNCHANGED <<vcf, num_threads, chunksize, is_fp, info_vcf_keys, format_vcf_keys,
                   info_vcf_key_counts, format_vcf_key_counts, sample_names,
                   pc, widx, variant_list, df_list, dataframe, item>>

(* -------------------------- _parallel_parse_vcf ------------------------ *)
\* header_iter(): the IDs of the header entries of one category, in header order
RECURSIVE HeaderIds(_, _)
HeaderIds(entries, category) ==
    IF Len(entries) = 0 THEN <<>>
    ELSE (IF Head(entries).HeaderType = category THEN <<Head(entries).ID>> ELSE <<>>)
         \o HeaderIds(Tail(entries), category)

\* Lines 461-465 and 476-480: "*" selects every header field of the category
ExpandKeys(keys, category) ==
    IF "*" \in Range(keys) THEN HeaderIds(vcf.header_iter, category) ELSE keys

\* Lines 466-468 and 481-483
KeyCounts(keys) ==
    [k \in Range(keys) |->
        get_normalized_count(vcf.header[k].Number, 1, Len(vcf.samples))]

\* Lines 457-487: schema resolution
ResolveSchema ==
    /\ pc = "resolve"
    /\ info_vcf_keys' = ExpandKeys(info_vcf_keys, "INFO")
    /\ format_vcf_keys' = ExpandKeys(format_vcf_keys, "FORMAT")
    /\ info_vcf_key_counts' = KeyCounts(info_vcf_keys')
    /\ format_vcf_key_counts' = KeyCounts(format_vcf_keys')
    /\ sample_names' = Range(vcf.samples)
    /\ pc' = "pool"
    /\ UNCHANGED <<vcf, num_threads, chunksize, is_fp, wpc, werr, widx, variant_list,
                   w_df_list, result, df_list, dataframe, item>>

\* Lines 490-493: the pool is created and every thread id is dispatched
StartPool ==
    /\ pc = "pool"
    /\ wpc' = [w \in Workers |-> "scan"]
    /\ pc' = "collect"
    /\ UNCHANGED <<vcf, num_threads, chunksize, is_fp, info_vcf_keys, format_vcf_keys,
                   info_vcf_key_counts, format_vcf_key_counts, sample_names,
                   werr, widx, variant_list, w_df_list, result, df_list, dataframe, item>>

\* pool.imap: the next result, in thread-id order; a worker's exception is
\* raised again in the caller
ImapNextSwallow(w) ==
    IF wpc[w] = "failed" THEN [raised |-> FALSE, df |-> EmptyDataFrame]
    ELSE [raised |-> FALSE, df |-> result[w]]

ImapNext(w) ==
    IF wpc[w] = "failed" THEN [raised |-> TRUE, df |-> EmptyDataFrame]
    ELSE [raised |-> FALSE, df |-> result[w]]

\* Lines 493-494: for df in pool.imap(...): df_list.append(df)
Collect ==
    /\ pc = "collect"
    /\ Len(df_list) < num_threads
    /\ LET w == Len(df_list)
           r == ImapNext(w)
       IN /\ wpc[w] \in {"done", "failed"}
          /\ IF r.raised
             THEN pc' = "failed" /\ UNCHANGED df_list
             ELSE df_list' = Append(df_list, r.df) /\ UNCHANGED pc
    /\ UNCHANGED <<vcf, num_threads, chunksize, is_fp, info_vcf_keys, format_vcf_keys,
                   info_vcf_key_counts, format_vcf_key_counts, sample_names,
                   wpc, werr, widx, variant_list, w_df_list, result, dataframe, item>>

\* Line 498: self._dataframe = pd.concat(df_list, ignore_index=True)
Merge ==
    /\ pc = "collect"
    /\ Len(df_list) = num_threads
    /\ dataframe' = Concat(df_list)
    /\ pc' = "done"
    /\ UNCHANGED <<vcf, num_threads, chunksize, is_fp, info_vcf_keys, format_vcf_keys,
                   info_vcf_key_counts, format_vcf_key_counts, sample_names,
                   wpc, werr, widx, variant_list, w_df_list, result, df_list, item>>

(* ------------------------------ __getitem__ ---------------------------- *)
\* sorted() on the field names of the model, by their code points
KeyRank(k) == CASE k = "F" -> 1 [] k = "GT" -> 2 [] k = "I" -> 3

RECURSIVE Sorted(_)
Sorted(keys) ==
    IF keys = {} THEN <<>>
    ELSE LET k == CHOOSE a \in keys : \A b \in keys : KeyRank(a) <= KeyRank(b)
         IN <<k>> \o Sorted(keys \ {k})

\* Lines 103-107 and 120-125: the columns read for one field
ReadCols(prefix, k, count) ==
    IF count = 1 THEN <<prefix \o k>>
    ELSE [i \in 1..count |-> prefix \o k \o "_" \o ToString(i - 1)]

RECURSIVE CallCols(_, _)
CallCols(call, format_keys) ==
    IF Len(format_keys) = 0 THEN <<>>
    ELSE ReadCols(call \o "_", Head(format_keys), format_vcf_key_counts[Head(format_keys)])
         \o CallCols(call, Tail(format_keys))

\* Lines 99-109: per sample, the FORMAT columns and then the zyg column
RECURSIVE SampleReads(_, _)
SampleReads(order, format_keys) ==
    IF Len(order) = 0 THEN <<>>
    ELSE CallCols(Head(order), format_keys) \o <<Head(order) \o "_zyg">>
         \o SampleReads(Tail(order), format_keys)

\* Lines 119-126: the INFO columns, in the order of the counts dictionary
RECURSIVE InfoReads(_)
InfoReads(keys) ==
    IF Len(keys) = 0 THEN <<>>
    ELSE ReadCols("INFO_", Head(keys), info_vcf_key_counts[Head(keys)])
         \o InfoReads(Tail(keys))

\* Every row[...] lookup of __getitem__, in program order
Reads(order) ==
    SampleReads(order, Sorted(DOMAIN format_vcf_key_counts))
    \o InfoReads(info_vcf_keys)
    \o <<"chrom", "ref", "alt">>

Cells(row, cols) == [i \in 1..Len(cols) |-> row[cols[i]]]

\* The orders in which a Python set of names may be iterated
Orders(names) == {o \in [1..Cardinality(names) -> names] : Range(o) = names}

NoItem == [status |-> "none", idx |-> 0, key |-> "", order |-> <<>>,
           samples |-> <<>>, zygosity |-> <<>>, info |-> <<>>]

\* Lines 93-142: the Variant of row idx, or the KeyError of the first lookup
\* of a column the table does not have
GetItem(idx, order) ==
    /\ pc = "done"
    /\ idx \in 0..(Len(dataframe.rows) - 1)
    /\ order \in Orders(sample_names)
    /\ LET row == dataframe.rows[idx + 1]
           reads == Reads(order)
           missing == {i \in 1..Len(reads) : reads[i] \notin dataframe.cols}
           format_keys == Sorted(DOMAIN format_vcf_key_counts)
       IN item' =
            IF missing # {}
            THEN [NoItem EXCEPT !.status = "KeyError", !.idx = idx, !.order = order,
                     !.key = reads[CHOOSE i \in missing : \A j \in missing : i <= j]]
            ELSE [status |-> "ok", idx |-> idx, key |-> "", order |-> order,
                  samples |-> [c \in 1..Len(order) |->
                                 Cells(row, CallCols(order[c], format_keys))],
                  zygosity |-> [c \in 1..Len(order) |-> row[order[c] \o "_zyg"]],
                  info |-> [n \in 1..Len(info_vcf_keys) |->
                              LET k == info_vcf_keys[n]
                              IN [key |-> k,
                                  single |-> info_vcf_key_counts[k] = 1,
                                  v |-> Cells(row, ReadCols("INFO_", k,
                                                            info_vcf_key_counts[k]))]]]
    /\ UNCHANGED <<vcf, num_threads, chunksize, is_fp, info_vcf_keys, format_vcf_keys,
                   info_vcf_key_counts, format_vcf_key_counts, sample_names,
                   pc, wpc, werr, widx, variant_list, w_df_list, result, df_list, dataframe>>

(* ------------------------------ the inputs ----------------------------- *)
NumberCodes == {"A", "R", "G", ".", "0", "1", "2"}
TypeStrings == {"String", "Integer", "Float", "Flag", "Character"}

\* The length of the value a record carries for a field of a Number code
PresentLen(header_number, num_alts) ==
    CASE header_number = "A" -> num_alts
      [] header_number = "R" -> num_alts + 1
      [] header_number = "G" -> ((num_alts + 1) * (num_alts + 2)) \div 2
      [] header_number = "." -> 2
      [] header_number = "0" -> 1
      [] OTHER -> IntOf(header_number)

RawValue(header_number, num_alts, base) ==
    LET n == PresentLen(header_number, num_alts)
    IN [is_tuple |-> n # 1, v |-> [j \in 1..n |-> Scalar(base + j)]]

NoFields == [k \in {} |-> <<>>]

\* A record of the source: num_alts alternates, the genotype pairs gts (one
\* per sample), and the INFO field I / FORMAT field F present or not
Record(num_alts, gts, number, info_present, format_present) ==
    [CHROM |-> "1", REF |-> "A",
     ALT |-> [a \in 1..num_alts |-> "ALT" \o ToString(a)],
     genotypes |-> gts,
     INFO |-> IF info_present THEN ("I" :> RawValue(number, num_alts, 10)) ELSE NoFields,
     FORMAT |-> IF format_present /\ Len(gts) > 0
                THEN ("F" :> [s \in 1..Len(gts) |->
                                RawValue(number, num_alts, 20 * s).v])
                ELSE NoFields]

\* The header: INFO field I and FORMAT field F declared (number, type), and GT
Header(number, type) ==
    ("I" :> [Number |-> number, Type |-> type])
    @@ ("F" :> [Number |-> number, Type |-> type])
    @@ ("GT" :> [Number |-> "1", Type |-> "String"])

HeaderIter == << [HeaderType |-> "INFO", ID |-> "I"],
                 [HeaderType |-> "FORMAT", ID |-> "GT"],
                 [HeaderType |-> "FORMAT", ID |-> "F"] >>

Vcf(samples, number, type, records, cached) ==
    [samples |-> samples, header |-> Header(number, type), header_iter |-> HeaderIter,
     records |-> records, genotypes_cached |-> cached]

SeqsUpTo(S, n) == UNION {[1..m -> S] : m \in 0..n}

\* The state after __init__ has stored its arguments (lines 59-79)
Constructed ==
    /\ info_vcf_key_counts = NoFields
    /\ format_vcf_key_counts = NoFields
    /\ sample_names = {}
    /\ pc = "resolve"
    /\ wpc = [w \in Workers |-> "idle"]
    /\ werr = [w \in Workers |-> ""]
    /\ widx = [w \in Workers |-> 0]
    /\ variant_list = [w \in Workers |-> <<>>]
    /\ w_df_list = [w \in Workers |-> <<>>]
    /\ result = [w \in Workers |-> NoneDataFrame]
    /\ df_list = <<>>
    /\ dataframe = NoneDataFrame
    /\ item = NoItem

\* The alternate-allele counts of the records of a partitioned stream
PartitionAltCounts == {0, 1, 2}

\* Streams of up to MaxRecords records split over up to MaxThreads workers
InitPartition ==
    /\ num_threads \in 1..MaxThreads
    /\ chunksize \in 1..MaxChunk
    /\ is_fp = FALSE
    /\ \E type \in {"Integer", "Character"} :
       \E counts \in SeqsUpTo(PartitionAltCounts, MaxRecords) :
          vcf = Vcf(<<"S1">>, "A", type,
                    [i \in 1..Len(counts) |->
                        Record(counts[i], <<<<0, 1>>>>, "A", TRUE, FALSE)],
                    FALSE)
    /\ info_vcf_keys = <<"*">>
    /\ format_vcf_keys = <<"GT">>
    /\ Constructed

SampleLists == {<<>>, <<"S1">>, <<"S2", "S1">>}

\* One record, one worker: every genotype pair of one sample
InitGenotype ==
    /\ num_threads = 1 /\ chunksize = 1
    /\ is_fp \in BOOLEAN
    /\ \E num_alts \in 1..MaxAlts, cached \in BOOLEAN :
       \E g0 \in -1..num_alts, g1 \in -1..num_alts :
          vcf = Vcf(<<"S1">>, "A", "Integer",
                    <<Record(num_alts, <<<<g0, g1>>>>, "A", TRUE, FALSE)>>, cached)
    /\ info_vcf_keys \in {<<>>, <<"I">>}
    /\ format_vcf_keys = <<"GT">>
    /\ Constructed

\* Which records of a stream carry the configured field
Presence == {<<>>, <<TRUE>>, <<FALSE>>, <<TRUE, FALSE, TRUE>>}

\* One worker: every Number code and value type of one configured INFO or
\* FORMAT field, over streams whose records carry the field or not
InitField ==
    /\ num_threads = 1 /\ chunksize = MaxChunk
    /\ is_fp = FALSE
    /\ \E num_alts \in 0..MaxAlts, samples \in SampleLists,
          number \in NumberCodes, type \in TypeStrings, present \in Presence :
          vcf = Vcf(samples, number, type,
                    [i \in 1..Len(present) |->
                        Record(num_alts, [s \in 1..Len(samples) |-> <<0, 1>>],
                               number, present[i], present[i])],
                    FALSE)
    /\ \/ info_vcf_keys = <<"I">> /\ format_vcf_keys = <<"GT">>
       \/ info_vcf_keys = <<>> /\ format_vcf_keys = <<"*">>
    /\ Constructed

Init == InitPartition

InitDecompose == InitGenotype \/ InitField

Next ==
    \/ ResolveSchema
    \/ StartPool
    \/ \E w \in Workers : WorkerScan(w)
    \/ \E w \in Workers : WorkerFinish(w)
    \/ Collect
    \/ Merge
    \/ \E idx \in 0..(Len(dataframe.rows) - 1), order \in Orders(sample_names) :
          GetItem(idx, order)

Spec == Init /\ [][Next]_vars

SpecDecompose == InitDecompose /\ [][Next]_vars

(* ---------------------------------------------------------------------- *)
(* Properties                                                             *)
(* ---------------------------------------------------------------------- *)
Count(s, x) == Cardinality({i \in DOMAIN s : s[i] = x})

\* s and t hold the same rows the same number of times
SameRows(s, t) ==
    /\ Len(s) = Len(t)
    /\ \A x \in Range(s) \cup Range(t) : Count(s, x) = Count(t, x)

RECURSIVE SumAlts(_)
SumAlts(records) ==
    IF Len(records) = 0 THEN 0
    ELSE Len(Head(records).ALT) + SumAlts(Tail(records))

\* The (record, alt) pair behind each row of a sequential decomposition
RECURSIVE Origins(_, _)
Origins(records, i) ==
    IF i > Len(records) THEN <<>>
    ELSE [k \in 1..Len(records[i].ALT) |-> [rec |-> i, alt |-> k - 1]]
         \o Origins(records, i + 1)

\* The records of the stream at the indices in S, in stream order
RECURSIVE Pick(_, _, _)
Pick(records, S, i) ==
    IF i > Len(records) THEN <<>>
    ELSE (IF (i - 1) \in S THEN <<records[i]>> ELSE <<>>) \o Pick(records, S, i + 1)

KnownTypes == {"String", "Integer", "Float", "Flag"}

AllDone == \A w \in Workers : wpc[w] = "done"

\* C1: once the pipeline has completed, the merged table has as many rows as
\* the records of the stream have alternate alleles in total.
RowCountInvariant ==
    pc = "done" => Len(dataframe.rows) = SumAlts(vcf.records)

RowCountWitness ==
    /\ pc = "done"
    /\ num_threads = 2
    /\ Len(vcf.records) = 3
    /\ \E i \in DOMAIN vcf.records : Len(vcf.records[i].ALT) = 0
    /\ \E i \in DOMAIN vcf.records : Len(vcf.records[i].ALT) = 2
    /\ Len(dataframe.rows) >= 3

\* C2: every record index satisfies the membership test of exactly one
\* worker, the per-worker index sets are pairwise disjoint and cover [0, N),
\* and in a completed pipeline each worker has decomposed exactly the records
\* of its set.
Assigned(w) == {i \in 0..(Len(vcf.records) - 1) : Belongs(i, w)}

ChunkCoverage ==
    /\ \A i \in 0..(Len(vcf.records) - 1) :
          Cardinality({w \in Workers : Belongs(i, w)}) = 1
    /\ \A w1, w2 \in Workers : w1 # w2 => Assigned(w1) \cap Assigned(w2) = {}
    /\ UNION {Assigned(w) : w \in Workers} = 0..(Len(vcf.records) - 1)
    /\ pc = "done" =>
          \A w \in Workers :
             SameRows(result[w].rows,
                      CreateDf(Pick(vcf.records, Assigned(w), 1)).df.rows)

ChunkCoverageWitness ==
    /\ num_threads = 2 /\ chunksize = 1 /\ Len(vcf.records) = 3
    /\ \A i \in DOMAIN vcf.records : Len(vcf.records[i].ALT) = 1
    /\ pc = "done"
    /\ Len(result[0].rows) = 2 /\ Len(result[1].rows) = 1

\* C3: for every worker count and chunk size the merged table holds the rows
\* of the sequential decomposition of the whole stream, each as many times;
\* only the order may differ.
PartitionIndependence ==
    pc = "done" => SameRows(dataframe.rows, CreateDf(vcf.records).df.rows)

PartitionIndependenceWitness ==
    /\ pc = "done"
    /\ num_threads = 2
    /\ Len(dataframe.rows) >= 3
    /\ dataframe.rows # CreateDf(vcf.records).df.rows

\* C4: the zygosity emitted for alt altId of a record is NO_VARIANT under the
\* false-positive flag; otherwise NONE when a raw value is -1 or a nonzero
\* index other than altId, NO_VARIANT for (0,0), HOMOZYGOUS for
\* (altId, altId), HETEROZYGOUS for (0, altId) and (altId, 0).
ExpectedZygosity(g0, g1, altId) ==
    IF is_fp THEN "NO_VARIANT"
    ELSE IF g0 = -1 \/ g1 = -1 \/ (g0 # 0 /\ g0 # altId) \/ (g1 # 0 /\ g1 # altId)
         THEN "NONE"
    ELSE IF g0 = 0 /\ g1 = 0 THEN "NO_VARIANT"
    ELSE IF g0 = altId /\ g1 = altId THEN "HOMOZYGOUS"
    ELSE "HETEROZYGOUS"

ZygosityMapping ==
    (pc = "done" /\ num_threads = 1) =>
       LET origin == Origins(vcf.records, 1)
       IN \A j \in DOMAIN dataframe.rows : \A s \in DOMAIN vcf.samples :
             LET gt == vcf.records[origin[j].rec].genotypes[s]
             IN dataframe.rows[j][vcf.samples[s] \o "_zyg"]
                  = ExpectedZygosity(gt[1], gt[2], origin[j].alt + 1)

\* C5: the row of alt k of a record equals the row obtained by decomposing
\* alt k alone, from the record as the source delivered it.
RowAlone(variant, alt_idx) ==
    FromDict(AltRow(Ok(EmptyDict, variant.genotypes), variant, alt_idx).d).rows[1]

DecompositionIndependence ==
    (pc = "done" /\ num_threads = 1) =>
       LET origin == Origins(vcf.records, 1)
       IN \A j \in DOMAIN dataframe.rows :
             dataframe.rows[j] = RowAlone(vcf.records[origin[j].rec], origin[j].alt)

\* The configured fields whose value type decomposition has to convert
InfoFields == Range(ExpandKeys(info_vcf_keys, "INFO"))
FormatFields == Range(ExpandKeys(format_vcf_keys, "FORMAT")) \ {"GT"}

UnknownTypeConfigured ==
    \E k \in InfoFields \cup FormatFields : vcf.header[k].Type \notin KnownTypes

\* An unknown type that decomposition meets: FORMAT fields are converted per
\* sample, so only in a file that has samples
UnknownTypeMet ==
    \/ \E k \in InfoFields : vcf.header[k].Type \notin KnownTypes
    \/ /\ vcf.samples # <<>>
       /\ \E k \in FormatFields : vcf.header[k].Type \notin KnownTypes

SomeAlt == \E i \in DOMAIN vcf.records : Len(vcf.records[i].ALT) > 0

RetrievalDefined ==
    item.status # "KeyError"

\* C8: every row has the columns the resolved schema determines, whether or
\* not its record carries the configured fields; a field the record lacks is
\* filled with nulls; no decomposition fails on columns of unequal length.
FieldColumns(df_key, header_number) ==
    CASE header_number \in {"A", "1", "."} -> {df_key}
      [] header_number = "R" -> {df_key \o "_REF", df_key \o "_ALT"}
      [] header_number = "2" -> {df_key \o "_0", df_key \o "_1"}
      [] OTHER -> {}

SampleColumns(sample_name) ==
    UNION {IF k = "GT" THEN {sample_name \o "_zyg", sample_name \o "_GT"}
           ELSE FieldColumns(sample_name \o "_" \o k, vcf.header[k].Number)
           : k \in Range(format_vcf_keys)}

SchemaFieldColumns ==
    UNION {FieldColumns("INFO_" \o k, vcf.header[k].Number) : k \in Range(info_vcf_keys)}
    \cup UNION {FieldColumns(vcf.samples[s] \o "_" \o k, vcf.header[k].Number)
                : s \in DOMAIN vcf.samples, k \in Range(format_vcf_keys) \ {"GT"}}

SchemaColumns ==
    {"chrom", "ref", "alt"}
    \cup UNION {FieldColumns("INFO_" \o k, vcf.header[k].Number) : k \in Range(info_vcf_keys)}
    \cup UNION {SampleColumns(vcf.samples[s]) : s \in DOMAIN vcf.samples}

StableShape(df) ==
    /\ df.rows # <<>> => df.cols = SchemaColumns
    /\ \A j \in DOMAIN df.rows :
          /\ DOMAIN df.rows[j] = SchemaColumns
          /\ \A c \in SchemaColumns : df.rows[j][c] # "NaN"

Carries(variant) == "I" \in DOMAIN variant.INFO \/ "F" \in DOMAIN variant.FORMAT

SchemaStableRows ==
    /\ \A w \in Workers :
          /\ werr[w] \notin {"ValueError", "IndexError"}
          /\ \A n \in DOMAIN w_df_list[w] : StableShape(w_df_list[w][n])
          /\ StableShape(result[w])
    /\ StableShape(dataframe)
    /\ (pc = "done" /\ num_threads = 1) =>
          LET origin == Origins(vcf.records, 1)
          IN \A j \in DOMAIN dataframe.rows :
                ~Carries(vcf.records[origin[j].rec]) =>
                   \A c \in SchemaFieldColumns :
                      dataframe.rows[j][c] \in {"None", "False"}

SchemaStableWitness ==
    /\ pc = "done"
    /\ Len(vcf.records) = 3
    /\ vcf.header["I"].Number = "2"
    /\ \E n \in DOMAIN w_df_list[0] :
          /\ Len(w_df_list[0][n].rows) >= 2
          /\ \E i, j \in DOMAIN w_df_list[0][n].rows :
                /\ "INFO_I_1" \in DOMAIN w_df_list[0][n].rows[i]
                /\ w_df_list[0][n].rows[i]["INFO_I_1"] = "None"
                /\ w_df_list[0][n].rows[j]["INFO_I_1"] # "None"

\* C9: the merged table is either unset or the concatenation, in worker
\* order, of the tables of all workers; once a worker has failed it stays
\* unset.
NoPartialResult ==
    /\ ~dataframe.none =>
          /\ AllDone
          /\ dataframe = Concat([i \in 1..num_threads |-> result[i - 1]])
    /\ (\E w \in Workers : wpc[w] = "failed") => (dataframe.none /\ pc # "done")

NoPartialResultWitness ==
    /\ pc = "failed"
    /\ Len(df_list) >= 1
    /\ dataframe.none

\* C10: for a configured field declared Flag with Number 0 every row carries
\* a column of that field, true exactly when the row's record has the field.
FlagValue(present) == IF present THEN "True" ELSE "False"

FlagColumns ==
    (pc = "done" /\ num_threads = 1) =>
       LET origin == Origins(vcf.records, 1)
       IN \A j \in DOMAIN dataframe.rows :
             LET variant == vcf.records[origin[j].rec]
                 row == dataframe.rows[j]
             IN /\ \A k \in Range(info_vcf_keys) :
                      (vcf.header[k].Type = "Flag" /\ vcf.header[k].Number = "0") =>
                         /\ ("INFO_" \o k) \in DOMAIN row
                         /\ row["INFO_" \o k] = FlagValue(k \in DOMAIN variant.INFO)
                /\ \A k \in Range(format_vcf_keys) \ {"GT"} :
                      (vcf.header[k].Type = "Flag" /\ vcf.header[k].Number = "0") =>
                         \A s \in DOMAIN vcf.samples :
                            /\ (vcf.samples[s] \o "_" \o k) \in DOMAIN row
                            /\ row[vcf.samples[s] \o "_" \o k]
                                 = FlagValue(k \in DOMAIN variant.FORMAT)

\* The records of worker w's chunks that its scan has appended so far
Scanned(w) ==
    LET upto == IF wpc[w] = "failed" THEN widx[w] + 1 ELSE widx[w]
    IN Pick(vcf.records, {i \in Assigned(w) : i < upto}, 1)

IsSuffix(s, t) ==
    /\ Len(s) <= Len(t)
    /\ SubSeq(t, Len(t) - Len(s) + 1, Len(t)) = s

RECURSIVE RowsIn(_)
RowsIn(dfs) ==
    IF Len(dfs) = 0 THEN 0 ELSE Len(Head(dfs).rows) + RowsIn(Tail(dfs))

\* The buffer of worker w holds records of its own chunks only
BufferOwned(w) == IsSuffix(variant_list[w], Scanned(w))

BufferBounded(w) == Len(variant_list[w]) <= chunksize

\* Each record appended so far is either still buffered or was decomposed once
BufferedOnce(w) ==
    wpc[w] \in {"scan", "done"} =>
        RowsIn(w_df_list[w])
          + (IF wpc[w] = "done" THEN 0 ELSE SumAlts(variant_list[w]))
        = SumAlts(Scanned(w))

\* A step of worker w that decomposes its buffer while records remain
FlushBeforeEnd(w) ==
    /\ wpc[w] = "scan"
    /\ widx[w] < Len(vcf.records)
    /\ w_df_list'[w] # w_df_list[w]

\* The number of records in the buffer handed to _create_df by that step
FlushedLen(w) == Len(variant_list[w]) + 1

\* C11: a worker's buffer holds only records of its own chunks, at most
\* chunksize of them; every flush before the end of the stream decomposes
\* exactly chunksize records and clears the buffer; the remainder is flushed
\* once at the end, so every buffered record is decomposed exactly once.
BufferDiscipline ==
    /\ [](\A w \in Workers : BufferOwned(w) /\ BufferBounded(w) /\ BufferedOnce(w))
    /\ [][\A w \in Workers :
            FlushBeforeEnd(w) =>
                /\ FlushedLen(w) = chunksize
                /\ variant_list'[w] = <<>>]_vars

\* C12: the i-th per-sample value list and the i-th zygosity of a
\* reconstructed Variant are those of the i-th sample of the source file.
SampleOrder ==
    item.status = "ok" =>
        LET row == dataframe.rows[item.idx + 1]
            format_keys == Sorted(DOMAIN format_vcf_key_counts)
        IN /\ Len(item.samples) = Len(vcf.samples)
           /\ Len(item.zygosity) = Len(vcf.samples)
           /\ \A i \in DOMAIN vcf.samples :
                 /\ item.samples[i] = Cells(row, CallCols(vcf.samples[i], format_keys))
                 /\ item.zygosity[i] = row[vcf.samples[i] \o "_zyg"]

====
